---- MODULE Spec2Model ----
(***************************************************************************)
(* Smart bin monitoring service (app.py): level ingestion, SMS alerting    *)
(* under a cooldown, manual alert trigger and the simulator pause flag.    *)
(* Every HTTP request is handled in a request slot; the steps of a handler *)
(* are cut at the calls that let another request run (the store's commit,  *)
(* the notifier call).  Spec handles one request at a time, SpecConc lets  *)
(* the handling of two requests overlap.                                   *)
(***************************************************************************)
EXTENDS Integers, Sequences, FiniteSets, TLC

\* ------------------------------------------------------------------ bounds
MaxReadings == 2
MaxLogs == 2
MaxTicks == 2
MaxSlots == 2

\* ------------------------------------------------------- program constants
ALERT_COOLDOWN_SECONDS == 60
ALERT_THRESHOLD == 80

ValidBins == {"yellow", "green", "blue"}

\* bin names the requests are drawn from: two of the bins and a name outside them
RequestBins == {"yellow", "green", "red"}

\* bin names the trigger_alert requests are drawn from
TriggerBins == {"yellow", "red"}

\* the clock moves in steps of half a cooldown; time.time() starts far from 0.0,
\* the default of last_alert_ts
TickStep == ALERT_COOLDOWN_SECONDS \div 2
EpochStart == 2 * ALERT_COOLDOWN_SECONDS
MaxClock == EpochStart + MaxTicks * TickStep

Slots == 1..MaxSlots

\* ------------------------------------------------------------- JSON values
\* a JSON value as Python sees it after parsing; strings are kept as
\* sequences of characters so that int() and lower() work on their text
JNull == [t |-> "null", n |-> 0, s |-> <<>>]
JInt(i) == [t |-> "int", n |-> i, s |-> <<>>]
JBool(b) == [t |-> "bool", n |-> IF b THEN 1 ELSE 0, s |-> <<>>]
JStr(chars) == [t |-> "str", n |-> 0, s |-> chars]

\* Python truthiness of a parsed JSON value (used by `or`, bool())
Truthy(v) ==
    CASE v.t = "null" -> FALSE
      [] v.t = "int" -> v.n # 0
      [] v.t = "bool" -> v.n = 1
      [] v.t = "str" -> v.s # <<>>

Digits == {"0", "1", "2", "3", "4", "5", "6", "7", "8", "9"}

DigitVal(c) ==
    CASE c = "0" -> 0 [] c = "1" -> 1 [] c = "2" -> 2 [] c = "3" -> 3
      [] c = "4" -> 4 [] c = "5" -> 5 [] c = "6" -> 6 [] c = "7" -> 7
      [] c = "8" -> 8 [] c = "9" -> 9

RECURSIVE DigitsToInt(_, _)
DigitsToInt(chars, acc) ==
    IF chars = <<>> THEN acc
    ELSE DigitsToInt(Tail(chars), acc * 10 + DigitVal(Head(chars)))

AllDigits(chars) == chars # <<>> /\ \A i \in 1..Len(chars) : chars[i] \in Digits

\* int(x) of Python: [ok |-> FALSE] stands for the raised exception
PyInt(v) ==
    CASE v.t = "int" -> [ok |-> TRUE, n |-> v.n]
      [] v.t = "bool" -> [ok |-> TRUE, n |-> v.n]
      [] v.t = "null" -> [ok |-> FALSE, n |-> 0]
      [] v.t = "str" ->
            IF AllDigits(v.s) THEN [ok |-> TRUE, n |-> DigitsToInt(v.s, 0)]
            ELSE IF Len(v.s) > 1 /\ v.s[1] = "-" /\ AllDigits(Tail(v.s))
                 THEN [ok |-> TRUE, n |-> 0 - DigitsToInt(Tail(v.s), 0)]
            ELSE [ok |-> FALSE, n |-> 0]

\* str(b) of a Python bool
PyStrBool(b) == IF b THEN <<"T", "r", "u", "e">> ELSE <<"F", "a", "l", "s", "e">>

LowerChar(c) == CASE c = "T" -> "t" [] c = "F" -> "f" [] OTHER -> c

\* str.lower()
Lower(chars) == [i \in 1..Len(chars) |-> LowerChar(chars[i])]

StrTrue == <<"t", "r", "u", "e">>
StrFalse == <<"f", "a", "l", "s", "e">>

\* ---------------------------------------------------------- request bodies
\* shape "none": no body or a body that is not JSON (get_json gives None);
\* shape "object": a JSON object, absent keys are JNull as dict.get gives None;
\* shape "array": a non-empty JSON array
NoBody == [shape |-> "none", level |-> JNull, value |-> JNull, has_paused |-> FALSE, simulator_paused |-> JNull]
ArrayBody == [shape |-> "array", level |-> JNull, value |-> JNull, has_paused |-> FALSE, simulator_paused |-> JNull]
LevelBody(v) == [shape |-> "object", level |-> v, value |-> JNull, has_paused |-> FALSE, simulator_paused |-> JNull]
ValueBody(v) == [shape |-> "object", level |-> JNull, value |-> v, has_paused |-> FALSE, simulator_paused |-> JNull]
PausedBody(v) == [shape |-> "object", level |-> JNull, value |-> JNull, has_paused |-> TRUE, simulator_paused |-> v]
OtherKeyBody == [shape |-> "object", level |-> JNull, value |-> JNull, has_paused |-> FALSE, simulator_paused |-> JNull]

UpdateBodies ==
    { NoBody, ArrayBody,
      LevelBody(JInt(0 - 5)), LevelBody(JInt(80)), LevelBody(JInt(150)),
      LevelBody(JStr(<<"8", "0">>)), LevelBody(JStr(<<"a", "b", "c">>)),
      ValueBody(JInt(80)) }

\* the update_level requests drawn: every body for one bin, a level at the
\* threshold for a second bin and for the name outside the set
UpdateRequests ==
    ({"yellow"} \X UpdateBodies)
        \cup ({"green", "red"} \X {LevelBody(JInt(80))})

PatchBodies ==
    { NoBody, OtherKeyBody, PausedBody(JBool(TRUE)), PausedBody(JBool(FALSE)),
      PausedBody(JStr(StrFalse)) }

\* -------------------------------------------------------------------- state
VARIABLES
    bins,         \* table bins: name -> [latest_level, last_alert_ts]
    readings,     \* table readings, in insertion order
    settings,     \* table settings: key -> value
    action_logs,  \* table action_logs, in insertion order
    clock,        \* time.time()
    req,          \* request slots: the handler's position and locals
    sms_calls,    \* number of safe_send_sms calls made so far, per bin name
    last_auto_ok, \* per bin: now_ts of the last automatic alert sent, -1 if none
    auto_failed,  \* per bin: an automatic alert failed and none was sent since
    last_patch,   \* what the last PATCH carrying simulator_paused asked for
    last_manual_ok, \* per bin: time stored by the last manual alert sent, -1 if none
    sim           \* the simulator process (sensor_simulator.py): its globals and position

vars == <<bins, readings, settings, action_logs, clock, req, sms_calls,
          last_auto_ok, auto_failed, last_patch, last_manual_ok, sim>>

NoResp == [code |-> 0, status |-> "", bin |-> "", level |-> 0, alert_sent |-> FALSE,
           simulator_paused |-> FALSE, changed |-> <<>>]

IdleSlot == [pc |-> "idle", kind |-> "", bin |-> "", level |-> 0, now_ts |-> 0,
             payload |-> "", sent |-> FALSE, calls |-> 0, appended |-> 0, rid |-> 0,
             seen_last |-> 0, seen_level |-> 0, prev_ok |-> 0 - 1, prev_failed |-> FALSE,
             resp |-> NoResp]

\* Bin(name=name): the column defaults
NewBin == [latest_level |-> 0, last_alert_ts |-> 0]

\* ---------------------------------------------------------- the simulator
\* sensor_simulator.py. Probabilities are in hundredths: 0.12 is 12.
SimBins == <<"yellow", "green", "blue">>

SimNames == {SimBins[i] : i \in 1..Len(SimBins)}

\* bins[name]['interval']
Interval == [n \in SimNames |-> IF n = "yellow" THEN 6 ELSE IF n = "green" THEN 7 ELSE 8]

CONFIG_POLL_INTERVAL == 4

P_BIG_JUMP == 12

P_SMALL_DECREASE == 12

P_EMPTY_WHEN_FULL == 25

FULL_COUNT_BEFORE_EMPTY == 2

OCCASIONAL_EMPTY_PROB == 2

\* the factor 0.15 of empty_chance
EMPTY_CHANCE_STEP == 15

\* a level counts as full from here on (prev >= 90, new >= 90)
FULL_LEVEL == 90

\* last_levels[name] = None
NoneLevel == 0 - 1

\* random.random(): a float of [0.0, 1.0), in hundredths
RandomUnit == 0..99

\* random.randint(a, b): every integer of a..b; only the upper end where the loop
\* is explored with three bins (no decision of the loop depends on a level)
RandInt(a, b, wide) == IF wide THEN a..b ELSE {b}

Max(a, b) == IF a >= b THEN a ELSE b

Min(a, b) == IF a <= b THEN a ELSE b

\* a generator whose emptying chance does not rise with the counter
EmptyChance_Flat(full_count) == P_EMPTY_WHEN_FULL

\* empty_chance = P_EMPTY_WHEN_FULL + 0.15 * max(0, full_counts[name] - FULL_COUNT_BEFORE_EMPTY)
EmptyChance(full_count) ==
    P_EMPTY_WHEN_FULL + EMPTY_CHANCE_STEP * Max(0, full_count - FULL_COUNT_BEFORE_EMPTY)

\* a generator that does not clamp
Clamp_None(new) == new

\* new = max(0, min(100, int(new)))
Clamp(new) == Max(0, Min(100, new))

\* the deltas the event draw r can give
EventDeltas(r, wide) ==
    IF r < P_BIG_JUMP THEN RandInt(10, 30, wide)
    ELSE IF r < P_BIG_JUMP + P_SMALL_DECREASE
         THEN {0 - d : d \in RandInt(2, 8, wide)}
         ELSE RandInt(1, 8, wide)

\* a generator that counts a full level once, on the next call only
FullAfterEvent_Keep(full_count, new) == IF new >= FULL_LEVEL THEN full_count ELSE 0

\* if new >= 90: full_counts[name] += 1 else: full_counts[name] = 0
FullAfterEvent(full_count, new) == IF new >= FULL_LEVEL THEN full_count + 1 ELSE 0

\* generate_next_level(name) with prev = last_levels[name] and
\* full_count = full_counts[name]: the set of its possible results, each with the
\* value returned and stored (new), full_counts[name] on return (full), the branch
\* taken (kind) and the chance its emptying draw was compared with (chance)
generate_next_level(prev, full_count, wide) ==
    IF prev = NoneLevel
    THEN { [new |-> n, full |-> IF n >= FULL_LEVEL THEN 1 ELSE 0,
            kind |-> "seed", chance |-> 0 - 1] : n \in RandInt(10, 35, wide) }
    ELSE LET fc == IF prev >= FULL_LEVEL THEN full_count + 1 ELSE 0
             chance == IF prev >= FULL_LEVEL THEN EmptyChance(fc)
                       ELSE OCCASIONAL_EMPTY_PROB
             will_empty == {r < chance : r \in RandomUnit}
             deltas == UNION {EventDeltas(r, wide) : r \in RandomUnit}
         IN  (IF TRUE \in will_empty
              THEN { [new |-> n, full |-> 0, kind |-> "empty", chance |-> chance] :
                         n \in RandInt(0, 18, wide) }
              ELSE {})
             \cup
             (IF FALSE \in will_empty
              THEN { [new |-> Clamp(prev + d),
                      full |-> FullAfterEvent(fc, Clamp(prev + d)),
                      kind |-> "event", chance |-> chance] : d \in deltas }
              ELSE {})

\* longest run of full levels the history fields follow
MaxRun == 6

\* seconds of the loop that are explored
MaxSimSeconds == 8

\* the seconds an iteration may take on top of its sleep (its HTTP calls)
Lags == {0, 1}

SimEnd == EpochStart + MaxSimSeconds

\* no call of generate_next_level yet
NoGen == [name |-> "none", kind |-> "none", new |-> NoneLevel, chance |-> 0 - 1,
          run_before |-> 0]

\* the module globals of sensor_simulator.py once imported, before run_forever;
\* time.time() of that process is `time`. History fields: run (per bin, the
\* number of most recent generated levels >= 90 in a row), seen_chance (the
\* emptying chance last used after a run of k full levels, -1 if none yet),
\* last_gen (the last call of generate_next_level), gen_now (per bin, the tick
\* time of its last generation, -1 if none), posts (the post_level calls of the
\* current iteration, in order), polled (what the current iteration's
\* fetch_config did: "no" call, "ok", "failed").
SimInit ==
    [pc |-> "top", idx |-> 0, time |-> EpochStart, now |-> 0,
     last_config_check |-> 0, paused |-> FALSE,
     next_update |-> [n \in SimNames |-> EpochStart],
     last_levels |-> [n \in SimNames |-> NoneLevel],
     full_counts |-> [n \in SimNames |-> 0],
     run |-> [n \in SimNames |-> 0],
     seen_chance |-> [k \in 1..MaxRun |-> 0 - 1],
     last_gen |-> NoGen,
     gen_now |-> [n \in SimNames |-> 0 - 1],
     posts |-> <<>>,
     polled |-> "no"]

\* db.create_all(); init_bins_if_needed()
Init ==
    /\ bins = [b \in ValidBins |-> NewBin]
    /\ readings = <<>>
    /\ settings = [k \in {} |-> <<>>]
    /\ action_logs = <<>>
    /\ clock = EpochStart
    /\ req = [r \in Slots |-> IdleSlot]
    /\ sms_calls = [b \in ValidBins \cup RequestBins |-> 0]
    /\ last_auto_ok = [b \in ValidBins \cup RequestBins |-> 0 - 1]
    /\ auto_failed = [b \in ValidBins \cup RequestBins |-> FALSE]
    /\ last_patch = "none"
    /\ last_manual_ok = [b \in ValidBins \cup RequestBins |-> 0 - 1]
    /\ sim = SimInit

InFlight == {r \in Slots : req[r].pc # "idle"}

\* a request is taken by the lowest free slot while fewer than `limit` are handled
CanStart(r, limit) ==
    /\ req[r].pc = "idle"
    /\ \A q \in Slots : q < r => req[q].pc # "idle"
    /\ Cardinality(InFlight) < limit

\* ------------------------------------------------------------------ helpers
\* a handler that lets every bin name through
InvalidBin_Never(bin_color) == FALSE

\* if bin_color not in ["yellow", "green", "blue"]
InvalidBin(bin_color) == bin_color \notin ValidBins

\* data = request.get_json(force=True, silent=True) or {}; data.get(...):
\* a body that parses to a non-empty JSON array has no .get, the handler raises
BodyRaises(body) == body.shape = "array"

\* level = data.get("level"); if None: data.get("value") or 0; int(level), 0 on error
ParseLevel(body) ==
    LET given == IF body.level.t # "null" THEN body.level
                 ELSE IF Truthy(body.value) THEN body.value
                 ELSE JInt(0)
        conv == PyInt(given)
    IN  IF conv.ok THEN conv.n ELSE 0

\* update_level setting latest_level only on the row it creates
StoreLevel_OnlyNew(tbl, bin_color, level) ==
    [b \in DOMAIN tbl \cup {bin_color} |->
        IF b \in DOMAIN tbl THEN tbl[b]
        ELSE [latest_level |-> level, last_alert_ts |-> NewBin.last_alert_ts]]

\* b.latest_level = level, on the row found or on the row created for the name
StoreLevel(tbl, bin_color, level) ==
    [b \in DOMAIN tbl \cup {bin_color} |->
        IF b = bin_color
        THEN [latest_level |-> level,
              last_alert_ts |-> IF b \in DOMAIN tbl THEN tbl[b].last_alert_ts
                                ELSE NewBin.last_alert_ts]
        ELSE tbl[b]]

\* Reading(bin_name=bin_color, level=level)
NewReading(bin_color, level) == [bin_name |-> bin_color, level |-> level]

\* if level >= 80
AboveThreshold(level) == level >= ALERT_THRESHOLD

\* if now_ts - (b.last_alert_ts or 0) >= ALERT_COOLDOWN_SECONDS
CooldownElapsed(now_ts, last_alert_ts) == now_ts - last_alert_ts >= ALERT_COOLDOWN_SECONDS

\* update_level forgetting to store the time of the alert it sent
AfterAutoSend_NoWrite(tbl, bin_color, sent, now_ts) == tbl

\* update_level storing the time of the attempt whatever the notifier answered
AfterAutoSend_Always(tbl, bin_color, sent, now_ts) ==
    [tbl EXCEPT ![bin_color].last_alert_ts = now_ts]

\* if res.get("sent"): b.last_alert_ts = now_ts (update_level)
AfterAutoSend(tbl, bin_color, sent, now_ts) ==
    IF sent THEN [tbl EXCEPT ![bin_color].last_alert_ts = now_ts] ELSE tbl

\* trigger_alert forgetting to store the time of the alert it sent
AfterManualSend_NoWrite(tbl, bin_color, sent, t) == tbl

\* trigger_alert storing the time whatever the notifier answered
AfterManualSend_Always(tbl, bin_color, sent, t) ==
    [tbl EXCEPT ![bin_color].last_alert_ts = t]

\* if res.get("sent"): b.last_alert_ts = time.time() (trigger_alert)
AfterManualSend(tbl, bin_color, sent, t) ==
    IF sent THEN [tbl EXCEPT ![bin_color].last_alert_ts = t] ELSE tbl

\* the audit entry of a failed automatic alert tagged as a sent one
AutoLogTag_AlwaysSent(sent) == "auto_alert_sent"

AutoLogTag(sent) == IF sent THEN "auto_alert_sent" ELSE "auto_alert_failed"

ManualLogTag(sent) == IF sent THEN "manual_alert_sent" ELSE "manual_alert_failed"

\* ActionLog(action_type=..., detail=...)
LogEntry(action_type, bin_color) == [action_type |-> action_type, bin |-> bin_color]

get_setting(tbl, key, default) == IF key \in DOMAIN tbl THEN tbl[key] ELSE default

set_setting(tbl, key, value) ==
    [k \in DOMAIN tbl \cup {key} |-> IF k = key THEN value ELSE tbl[k]]

\* the flag stored as str(val), without .lower()
PausedText_NoLower(val) == PyStrBool(val)

\* str(val).lower()
PausedText(val) == Lower(PyStrBool(val))

\* get_setting("simulator_paused", "false") == "true"
ConfigPaused(tbl) == get_setting(tbl, "simulator_paused", StrFalse) = StrTrue

\* handlers that may still write an audit entry
PendingLogs == Cardinality({r \in Slots : req[r].pc \in {"check", "send", "tsend"}})

LogRoom == Len(action_logs) + PendingLogs < MaxLogs

\* what kind of level payload a body is: no JSON body, a JSON array, an object
\* with no level, with a level int() refuses, or with a level int() accepts
PayloadKind(body) ==
    IF body.shape = "none" THEN "none"
    ELSE IF body.shape = "array" THEN "array"
    ELSE IF body.level.t = "null" THEN "nolevel"
    ELSE IF ~PyInt(body.level).ok THEN "badlevel"
    ELSE "level"

UNCHANGED_ghosts ==
    UNCHANGED <<sms_calls, last_auto_ok, auto_failed, last_patch, last_manual_ok, sim>>

\* ------------------------------------------------------------ update_level
\* POST /update_level/<bin_color>: lines 139-159, and the reply when level < 80
UpdateLevel(r, bin_color, body, limit) ==
    /\ CanStart(r, limit)
    /\ LET slot == [IdleSlot EXCEPT !.kind = "update", !.bin = bin_color,
                                    !.payload = PayloadKind(body)]
       IN
       IF InvalidBin(bin_color)
       THEN /\ req' = [req EXCEPT ![r] = [slot EXCEPT !.pc = "done",
                          !.resp = [NoResp EXCEPT !.code = 400, !.status = "invalid bin"]]]
            /\ UNCHANGED <<bins, readings>>
       ELSE IF BodyRaises(body)
       THEN /\ req' = [req EXCEPT ![r] = [slot EXCEPT !.pc = "done",
                          !.resp = [NoResp EXCEPT !.code = 500, !.status = "error"]]]
            /\ UNCHANGED <<bins, readings>>
       ELSE LET level == ParseLevel(body)
                ok == [NoResp EXCEPT !.code = 200, !.status = "success",
                                     !.bin = bin_color, !.level = level]
                s2 == [slot EXCEPT !.level = level, !.appended = 1,
                                   !.rid = Len(readings) + 1]
            IN  /\ Len(readings) < MaxReadings
                /\ AboveThreshold(level) => LogRoom
                /\ bins' = StoreLevel(bins, bin_color, level)
                /\ readings' = Append(readings, NewReading(bin_color, level))
                /\ req' = [req EXCEPT ![r] =
                             IF AboveThreshold(level)
                             THEN [s2 EXCEPT !.pc = "check"]
                             ELSE [s2 EXCEPT !.pc = "done", !.resp = ok]]
    /\ UNCHANGED <<settings, action_logs, clock>>
    /\ UNCHANGED_ghosts

\* lines 164-165: now_ts = time.time(); the cooldown test on the row's last_alert_ts
UpdateCheck(r) ==
    /\ req[r].pc = "check"
    /\ LET b == req[r].bin
           last == bins[b].last_alert_ts
           s2 == [req[r] EXCEPT !.now_ts = clock, !.seen_last = last,
                                !.prev_ok = last_auto_ok[b],
                                !.prev_failed = auto_failed[b]]
       IN  req' = [req EXCEPT ![r] =
                     IF CooldownElapsed(clock, last)
                     THEN [s2 EXCEPT !.pc = "send"]
                     ELSE [s2 EXCEPT !.pc = "done",
                              !.resp = [NoResp EXCEPT !.code = 200, !.status = "success",
                                           !.bin = b, !.level = req[r].level]]]
    /\ UNCHANGED <<bins, readings, settings, action_logs, clock>>
    /\ UNCHANGED_ghosts

\* lines 166-180: safe_send_sms returns `sent`; the row, the audit entry, the reply
UpdateSend(r, sent) ==
    /\ req[r].pc = "send"
    /\ LET b == req[r].bin
       IN  /\ bins' = AfterAutoSend(bins, b, sent, req[r].now_ts)
           /\ action_logs' = Append(action_logs, LogEntry(AutoLogTag(sent), b))
           /\ sms_calls' = [sms_calls EXCEPT ![b] = @ + 1]
           /\ last_auto_ok' = IF sent THEN [last_auto_ok EXCEPT ![b] = req[r].now_ts]
                              ELSE last_auto_ok
           /\ auto_failed' = [auto_failed EXCEPT ![b] = ~sent]
           /\ req' = [req EXCEPT ![r].pc = "done", ![r].sent = sent, ![r].calls = @ + 1,
                         ![r].resp = [NoResp EXCEPT !.code = 200, !.status = "success",
                                         !.bin = b, !.level = req[r].level,
                                         !.alert_sent = sent]]
    /\ UNCHANGED <<readings, settings, clock, last_patch, last_manual_ok, sim>>

\* ----------------------------------------------------------- trigger_alert
\* POST /trigger_alert/<bin_color>: lines 217-223, up to the call of safe_send_sms
TriggerAlert(r, bin_color, limit) ==
    /\ CanStart(r, limit)
    /\ LET slot == [IdleSlot EXCEPT !.kind = "trigger", !.bin = bin_color]
       IN
       IF InvalidBin(bin_color)
       THEN req' = [req EXCEPT ![r] = [slot EXCEPT !.pc = "done",
                       !.resp = [NoResp EXCEPT !.code = 400, !.status = "invalid bin"]]]
       ELSE IF bin_color \notin DOMAIN bins
       THEN req' = [req EXCEPT ![r] = [slot EXCEPT !.pc = "done",
                       !.resp = [NoResp EXCEPT !.code = 404, !.status = "bin not found"]]]
       ELSE /\ LogRoom
            /\ req' = [req EXCEPT ![r] = [slot EXCEPT !.pc = "tsend",
                          !.level = bins[bin_color].latest_level,
                          !.seen_level = bins[bin_color].latest_level,
                          !.seen_last = bins[bin_color].last_alert_ts]]
    /\ UNCHANGED <<bins, readings, settings, action_logs, clock>>
    /\ UNCHANGED_ghosts

\* lines 223-231: safe_send_sms returns `sent`; the row, the audit entry, the reply
TriggerSend(r, sent) ==
    /\ req[r].pc = "tsend"
    /\ LET b == req[r].bin
       IN  /\ bins' = AfterManualSend(bins, b, sent, clock)
           /\ action_logs' = Append(action_logs, LogEntry(ManualLogTag(sent), b))
           /\ sms_calls' = [sms_calls EXCEPT ![b] = @ + 1]
           /\ auto_failed' = IF sent THEN [auto_failed EXCEPT ![b] = FALSE]
                             ELSE auto_failed
           /\ last_manual_ok' = IF sent THEN [last_manual_ok EXCEPT ![b] = clock]
                                ELSE last_manual_ok
           /\ req' = [req EXCEPT ![r].pc = "done", ![r].sent = sent, ![r].calls = @ + 1,
                         ![r].now_ts = clock,
                         ![r].resp = IF sent
                                     THEN [NoResp EXCEPT !.code = 200, !.status = "alert_sent"]
                                     ELSE [NoResp EXCEPT !.code = 500, !.status = "alert_failed"]]
    /\ UNCHANGED <<readings, settings, clock, last_auto_ok, last_patch, sim>>

\* ------------------------------------------------------------------ config
\* GET /config
GetConfig(r, limit) ==
    /\ CanStart(r, limit)
    /\ req' = [req EXCEPT ![r] = [IdleSlot EXCEPT !.pc = "done", !.kind = "get",
                  !.resp = [NoResp EXCEPT !.code = 200, !.status = "ok",
                               !.simulator_paused = ConfigPaused(settings)]]]
    /\ UNCHANGED <<bins, readings, settings, action_logs, clock>>
    /\ UNCHANGED_ghosts

\* "simulator_paused" in data, with data = get_json(...) or {}
HasPausedKey(body) == body.shape = "object" /\ body.has_paused

\* PATCH /config
PatchConfig(r, body, limit) ==
    /\ CanStart(r, limit)
    /\ IF HasPausedKey(body)
       THEN LET val == Truthy(body.simulator_paused)
                stored == set_setting(settings, "simulator_paused", PausedText(val))
            IN  /\ LogRoom
                /\ settings' = stored
                /\ action_logs' = Append(action_logs,
                                         LogEntry("simulator_paused_toggled", ""))
                /\ last_patch' = IF body.simulator_paused.t = "bool"
                                 THEN (IF val THEN "true" ELSE "false")
                                 ELSE "other"
                /\ req' = [req EXCEPT ![r] = [IdleSlot EXCEPT !.pc = "done",
                              !.kind = "patch", !.payload = "key",
                              !.resp = [NoResp EXCEPT !.code = 200, !.status = "ok",
                                 !.simulator_paused = ConfigPaused(stored),
                                 !.changed = <<[key |-> "simulator_paused", val |-> val]>>]]]
       ELSE /\ req' = [req EXCEPT ![r] = [IdleSlot EXCEPT !.pc = "done",
                          !.kind = "patch", !.payload = "nokey",
                          !.resp = [NoResp EXCEPT !.code = 200, !.status = "ok",
                                       !.simulator_paused = ConfigPaused(settings)]]]
            /\ UNCHANGED <<settings, action_logs, last_patch>>
    /\ UNCHANGED <<bins, readings, clock, sms_calls, last_auto_ok, auto_failed,
                   last_manual_ok, sim>>

\* ------------------------------------------------------------- environment
\* the reply leaves the handler (return jsonify(...)); the slot is free again
Respond(r) ==
    /\ req[r].pc = "done"
    /\ req' = [req EXCEPT ![r] = IdleSlot]
    /\ UNCHANGED <<bins, readings, settings, action_logs, clock>>
    /\ UNCHANGED_ghosts

\* time passes
Tick ==
    /\ clock + TickStep <= MaxClock
    /\ clock' = clock + TickStep
    /\ UNCHANGED <<bins, readings, settings, action_logs, req>>
    /\ UNCHANGED_ghosts

Handle(limit) ==
    \E r \in Slots :
        \/ \E u \in UpdateRequests : UpdateLevel(r, u[1], u[2], limit)
        \/ UpdateCheck(r)
        \/ \E sent \in BOOLEAN : UpdateSend(r, sent)
        \/ \E b \in TriggerBins : TriggerAlert(r, b, limit)
        \/ \E sent \in BOOLEAN : TriggerSend(r, sent)
        \/ GetConfig(r, limit)
        \/ \E body \in PatchBodies : PatchConfig(r, body, limit)
        \/ Respond(r)

\* requests are handled one after the other
Next == Handle(1) \/ Tick

Spec == Init /\ [][Next]_vars

\* the requests whose handling is let overlap: alerts for one bin
ConcBins == {"yellow"}
ConcBodies == {NoBody, LevelBody(JInt(80))}

\* the handling of up to MaxSlots update_level and trigger_alert requests overlaps
NextConc ==
    \/ \E r \in Slots :
          \/ \E b \in ConcBins, body \in ConcBodies : UpdateLevel(r, b, body, MaxSlots)
          \/ UpdateCheck(r)
          \/ \E sent \in BOOLEAN : UpdateSend(r, sent)
          \/ \E b \in ConcBins : TriggerAlert(r, b, MaxSlots)
          \/ \E sent \in BOOLEAN : TriggerSend(r, sent)
          \/ Respond(r)
    \/ Tick

SpecConc == Init /\ [][NextConc]_vars

\* ------------------------------------------------- the simulator's actions
\* the globals after one call generate_next_level(name) that gave out
Generated(st, name, out) ==
    LET run_before == st.run[name]
        run_after  == IF out.new >= FULL_LEVEL THEN Min(MaxRun, run_before + 1) ELSE 0
    IN  [st EXCEPT
            !.last_levels[name] = out.new,
            !.full_counts[name] = out.full,
            !.run[name] = run_after,
            !.seen_chance = IF out.kind # "seed" /\ run_before \in 1..MaxRun
                            THEN [@ EXCEPT ![run_before] = out.chance]
                            ELSE @,
            !.last_gen = [name |-> name, kind |-> out.kind, new |-> out.new,
                          chance |-> out.chance, run_before |-> run_before]]

\* if now - _last_config_check >= CONFIG_POLL_INTERVAL
PollDue(now, last_config_check) == now - last_config_check >= CONFIG_POLL_INTERVAL

\* fetch_config(): _paused afterwards. got is FALSE when requests.get or r.json()
\* raises, the flag is then kept; otherwise it is the flag GET /config answers
fetch_config(paused, got, tbl) == IF got THEN ConfigPaused(tbl) ELSE paused

\* a loop that goes on to the bins whatever the flag
LoopBranch_IgnorePause(paused) == "bins"

\* if _paused: time.sleep(CONFIG_POLL_INTERVAL); continue
LoopBranch(paused) == IF paused THEN "pause" ELSE "bins"

\* a loop that takes every bin on every tick
Due_Always(now, next_update) == TRUE

\* if now >= info['next_update']
Due(now, next_update) == now >= next_update

\* a loop that leaves a bin due when its post failed
Reschedule_OnlyOk(next_update, name, now, ok) ==
    IF ok THEN [next_update EXCEPT ![name] = now + Interval[name]] ELSE next_update

\* info['next_update'] = now + info['interval'], whatever post_level returned
Reschedule(next_update, name, now, ok) ==
    [next_update EXCEPT ![name] = now + Interval[name]]

UNCHANGED_service ==
    UNCHANGED <<bins, readings, settings, action_logs, clock, req, sms_calls,
                last_auto_ok, auto_failed, last_patch, last_manual_ok>>

\* run_forever, top of an iteration: now = time.time(); poll /config when it is
\* due; then the test of _paused
LoopTop ==
    /\ sim.pc = "top"
    /\ \E got \in BOOLEAN :
         LET now == sim.time
             due == PollDue(now, sim.last_config_check)
             paused == IF due THEN fetch_config(sim.paused, got, settings)
                       ELSE sim.paused
         IN  /\ due \/ got
             /\ sim' = [sim EXCEPT
                    !.now = now,
                    !.last_config_check = IF due THEN now ELSE @,
                    !.paused = paused,
                    !.polled = IF ~due THEN "no" ELSE IF got THEN "ok" ELSE "failed",
                    !.pc = LoopBranch(paused),
                    !.idx = 1,
                    !.posts = <<>>]
    /\ UNCHANGED_service

\* time.sleep(CONFIG_POLL_INTERVAL); continue
PausedSleep ==
    /\ sim.pc = "pause"
    /\ sim.time < SimEnd
    /\ \E lag \in Lags :
           sim' = [sim EXCEPT !.time = @ + CONFIG_POLL_INTERVAL + lag, !.pc = "top"]
    /\ UNCHANGED_service

\* one turn of `for name, info in bins.items()`: a bin that is due gets its next
\* level generated and posted (ok is what post_level returned: FALSE when
\* requests.post raised) and is rescheduled; a bin that is not due is passed
ProcessBin ==
    /\ sim.pc = "bins"
    /\ sim.idx <= Len(SimBins)
    /\ LET name == SimBins[sim.idx]
       IN  IF Due(sim.now, sim.next_update[name])
           THEN \E out \in generate_next_level(sim.last_levels[name],
                                               sim.full_counts[name], FALSE) :
                \E ok \in BOOLEAN :
                    sim' = [Generated(sim, name, out) EXCEPT
                               !.posts = Append(@, [name |-> name, level |-> out.new,
                                                    ok |-> ok]),
                               !.next_update = Reschedule(@, name, sim.now, ok),
                               !.gen_now[name] = sim.now,
                               !.idx = @ + 1]
           ELSE sim' = [sim EXCEPT !.idx = @ + 1]
    /\ UNCHANGED_service

\* time.sleep(1) after the last bin
Sleep ==
    /\ sim.pc = "bins"
    /\ sim.idx > Len(SimBins)
    /\ sim.time < SimEnd
    /\ \E lag \in Lags :
           sim' = [sim EXCEPT !.time = @ + 1 + lag, !.pc = "top"]
    /\ UNCHANGED_service

\* the PATCH /config bodies sent while the simulator runs
SimPatchBodies == {PausedBody(JBool(TRUE)), PausedBody(JBool(FALSE))}

\* the simulator's loop, and the service answering PATCH /config meanwhile; what
\* the service does with a posted level is update_level (UpdateLevel above)
NextSim ==
    \/ LoopTop
    \/ PausedSleep
    \/ ProcessBin
    \/ Sleep
    \/ \E r \in Slots : \E body \in SimPatchBodies : PatchConfig(r, body, 1)
    \/ \E r \in Slots : Respond(r)

SpecSim == Init /\ [][NextSim]_vars

\* the bins the generator is called for on its own
GenNames == {"yellow"}

\* lvl = generate_next_level(name), called on its own
GenerateNextLevel(name) ==
    /\ \E out \in generate_next_level(sim.last_levels[name], sim.full_counts[name], TRUE) :
           sim' = Generated(sim, name, out)
    /\ UNCHANGED <<bins, readings, settings, action_logs, clock, req, sms_calls,
                   last_auto_ok, auto_failed, last_patch, last_manual_ok>>

NextGen == \E name \in GenNames : GenerateNextLevel(name)

\* every sequence of generate_next_level calls
SpecGen == Init /\ [][NextGen]_vars

\* ================================================================== claims
DoneUpdates == {r \in Slots : req[r].pc = "done" /\ req[r].kind = "update"
                               /\ req[r].bin \in ValidBins}

DoneTriggers == {r \in Slots : req[r].pc = "done" /\ req[r].kind = "trigger"
                                /\ req[r].bin \in ValidBins}

\* C1: an update_level call with level >= 80 whose clock reading is at least
\* ALERT_COOLDOWN_SECONDS past the bin's last_alert_ts invokes the notifier
\* exactly once; a call with level >= 80 made less than ALERT_COOLDOWN_SECONDS
\* after an automatic alert of the same bin was sent invokes it zero times and
\* reports alert_sent = false.
C1_CooldownGate ==
    \A r \in DoneUpdates :
        req[r].level >= 80 =>
            /\ (req[r].now_ts - req[r].seen_last >= ALERT_COOLDOWN_SECONDS
                    => req[r].calls = 1)
            /\ (req[r].prev_ok >= 0 /\ req[r].now_ts - req[r].prev_ok < ALERT_COOLDOWN_SECONDS
                    => req[r].calls = 0 /\ ~req[r].resp.alert_sent)

\* a qualifying update half a cooldown after a sent alert was answered without a send
C1_Witness ==
    \E r \in DoneUpdates :
        /\ req[r].level >= 80
        /\ req[r].prev_ok >= 0
        /\ req[r].now_ts - req[r].prev_ok > 0
        /\ req[r].now_ts - req[r].prev_ok < ALERT_COOLDOWN_SECONDS
        /\ req[r].calls = 0
        /\ req[r].resp.status = "success"

\* C2: a failed notifier call in update_level leaves the bin's last_alert_ts as it
\* was, and an update_level call with level >= 80 that follows a failed automatic
\* alert of the bin (no alert sent for it in between) invokes the notifier again.
C2_FailureKeepsRetry ==
    \A r \in DoneUpdates :
        /\ (req[r].calls = 1 /\ ~req[r].sent
                => bins[req[r].bin].last_alert_ts = req[r].seen_last)
        /\ (req[r].level >= 80 /\ req[r].prev_failed => req[r].calls = 1)

\* the retry happened with no time passed since the service started
C2_Witness ==
    \E r \in DoneUpdates :
        /\ req[r].level >= 80
        /\ req[r].prev_failed
        /\ req[r].calls = 1
        /\ req[r].now_ts = EpochStart

\* C3: every update_level call with a bin name of the set appends exactly one
\* Reading, which carries the bin and the level of the response.
C3_OneReadingPerAcceptedUpdate ==
    \A r \in DoneUpdates :
        /\ req[r].appended = 1
        /\ req[r].rid \in 1..Len(readings)
        /\ readings[req[r].rid] = [bin_name |-> req[r].resp.bin, level |-> req[r].resp.level]

\* C3, second half: a step changes the readings only by appending one Reading,
\* and only the step of update_level that stores the level does
C3_OnlyUpdateAppends ==
    [][readings' # readings =>
          \E r \in Slots :
              /\ req[r].pc = "idle" /\ req'[r].kind = "update" /\ req'[r].appended = 1
              /\ readings' = Append(readings, [bin_name |-> req'[r].bin,
                                               level |-> req'[r].level])]_vars

\* C4: every latest_level and every stored Reading level is in [0,100].
C4_LevelsInRange ==
    /\ \A b \in DOMAIN bins : bins[b].latest_level \in 0..100
    /\ \A i \in 1..Len(readings) : readings[i].level \in 0..100

\* C5: trigger_alert for a bin of the set invokes the notifier exactly once; a sent
\* alert stores the time read after the send as last_alert_ts, a failed one leaves
\* last_alert_ts as it was.
C5_ManualAlwaysSends ==
    \A r \in DoneTriggers :
        /\ req[r].calls = 1
        /\ (req[r].sent => bins[req[r].bin].last_alert_ts = req[r].now_ts)
        /\ (~req[r].sent => bins[req[r].bin].last_alert_ts = req[r].seen_last)

\* a manual alert was sent for a bin below the threshold and inside its cooldown
C5_Witness ==
    \E r \in DoneTriggers :
        /\ req[r].sent
        /\ req[r].seen_level < 80
        /\ req[r].seen_last > 0
        /\ req[r].now_ts - req[r].seen_last < ALERT_COOLDOWN_SECONDS

\* C6: an update_level or trigger_alert request with a bin name outside the set is
\* answered with an error at once and changes no Bin, Reading or audit entry and
\* makes no notifier call.
C6_InvalidBinChangesNothing ==
    [][\A r \in Slots :
          (/\ req[r].pc = "idle"
           /\ req'[r].pc # "idle"
           /\ req'[r].kind \in {"update", "trigger"}
           /\ req'[r].bin \notin {"yellow", "green", "blue"})
          => /\ req'[r].pc = "done"
             /\ req'[r].resp.code = 400
             /\ req'[r].resp.status = "invalid bin"
             /\ bins' = bins
             /\ readings' = readings
             /\ action_logs' = action_logs
             /\ sms_calls' = sms_calls]_vars

\* an update for a name outside the set was rejected with readings already stored
C6_Witness ==
    \E r \in Slots :
        /\ req[r].pc = "done"
        /\ req[r].kind = "update"
        /\ req[r].bin = "red"
        /\ req[r].resp.code = 400
        /\ Len(readings) > 0

\* C7: no step lowers a bin's last_alert_ts.
C7_LastAlertNeverDecreases ==
    [][\A b \in DOMAIN bins : bins'[b].last_alert_ts >= bins[b].last_alert_ts]_vars

\* C8: an update_level call whose notifier call failed still answers success with
\* alert_sent = false, has stored the level and its Reading, and has written the
\* audit entry auto_alert_failed.
C8_NotifierFailureNotFatal ==
    \A r \in DoneUpdates :
        (req[r].calls = 1 /\ ~req[r].sent) =>
            /\ req[r].resp.code = 200
            /\ req[r].resp.status = "success"
            /\ ~req[r].resp.alert_sent
            /\ req[r].resp.level = req[r].level
            /\ bins[req[r].bin].latest_level = req[r].level
            /\ req[r].rid \in 1..Len(readings)
            /\ readings[req[r].rid] = [bin_name |-> req[r].bin, level |-> req[r].level]
            /\ Len(action_logs) > 0
            /\ action_logs[Len(action_logs)] =
                   [action_type |-> "auto_alert_failed", bin |-> req[r].bin]

\* an update_level call was answered after its notifier call failed
C8_Witness ==
    \E r \in DoneUpdates :
        /\ req[r].calls = 1
        /\ ~req[r].sent
        /\ req[r].level >= 80
        /\ req[r].resp.status = "success"

\* C9: an update_level call with no JSON body, no level field or a level int()
\* refuses records level 0, appends a Reading with level 0 and answers success
\* without an alert attempt.
C9_MalformedLevelIsZero ==
    \A r \in DoneUpdates :
        req[r].payload \in {"none", "array", "nolevel", "badlevel"} =>
            /\ req[r].resp.code = 200
            /\ req[r].resp.status = "success"
            /\ req[r].resp.level = 0
            /\ req[r].calls = 0
            /\ req[r].appended = 1
            /\ req[r].rid \in 1..Len(readings)
            /\ readings[req[r].rid].level = 0
            /\ bins[req[r].bin].latest_level = 0

\* C10: GET /config answers the value of the last PATCH that carried a boolean
\* simulator_paused; a PATCH without the key leaves the stored flag as it is and
\* reports an empty changed list.
C10_PauseFlagRoundTrip ==
    [][/\ \A r \in Slots :
            (req'[r].pc = "done" /\ req'[r].kind = "get" /\ last_patch' \in {"true", "false"})
            => req'[r].resp.simulator_paused = (last_patch' = "true")
       /\ \A r \in Slots :
            (req[r].pc = "idle" /\ req'[r].kind = "patch" /\ req'[r].payload = "nokey")
            => /\ settings' = settings
               /\ last_patch' = last_patch
               /\ req'[r].resp.changed = <<>>
               /\ (last_patch \in {"true", "false"}
                      => req'[r].resp.simulator_paused = (last_patch = "true"))]_vars

\* GET /config answered true after a PATCH that set the flag to true
C10_Witness ==
    \E r \in Slots :
        /\ req[r].pc = "done"
        /\ req[r].kind = "get"
        /\ last_patch = "true"
        /\ req[r].resp.simulator_paused

\* C11: every stored level is an integer of 0..100 and is the value the last call
\* returned; a first value is in 10..35; a value produced by emptying is in 0..18
\* and leaves the bin's full_counts at 0.
C11_GeneratedLevelsInRange ==
    /\ \A n \in SimNames :
           sim.last_levels[n] = NoneLevel \/ sim.last_levels[n] \in 0..100
    /\ sim.last_gen.name \in SimNames =>
           /\ sim.last_gen.new \in 0..100
           /\ sim.last_levels[sim.last_gen.name] = sim.last_gen.new
           /\ sim.last_gen.kind = "seed" => sim.last_gen.new \in 10..35
           /\ sim.last_gen.kind = "empty" =>
                  /\ sim.last_gen.new \in 0..18
                  /\ sim.full_counts[sim.last_gen.name] = 0

\* a bin that was full has been emptied, after a growth was cut at 100
C11_Witness ==
    /\ sim.last_gen.kind = "empty"
    /\ sim.last_gen.run_before >= 2
    /\ sim.last_gen.new \in 0..18
    /\ sim.full_counts[sim.last_gen.name] = 0

\* C12: the emptying chance used after 3 full levels in a row is greater than the
\* one used after exactly 1, and the chance used never goes down as the run of
\* full levels gets longer.
C12_EmptyChanceGrowsWithRun ==
    /\ (sim.seen_chance[1] >= 0 /\ sim.seen_chance[3] >= 0)
           => sim.seen_chance[3] > sim.seen_chance[1]
    /\ \A j \in 1..MaxRun : \A k \in 1..MaxRun :
           (j < k /\ sim.seen_chance[j] >= 0 /\ sim.seen_chance[k] >= 0)
               => sim.seen_chance[j] <= sim.seen_chance[k]

\* draws after runs of 1, 2 and 3 full levels have all been made
C12_Witness ==
    /\ sim.seen_chance[1] >= 0
    /\ sim.seen_chance[2] >= 0
    /\ sim.seen_chance[3] >= 0
    /\ sim.last_gen.run_before = 3

\* C16: full_counts[name] is the number of most recent generated levels of the bin
\* that are >= 90 in a row.
C16_FullCountIsRunLength ==
    \A n \in SimNames : sim.full_counts[n] = sim.run[n]

\* C18: no bin has more than 4 generated levels >= 90 in a row: the call made
\* after 4 of them compares its draw with a chance of 1 or more and empties to a
\* level of 0..18.
C18_AtMostFourFullInARow ==
    /\ \A n \in SimNames : sim.run[n] <= 4
    /\ sim.last_gen.run_before >= 4 =>
           /\ sim.last_gen.chance >= 100
           /\ sim.last_gen.kind = "empty"
           /\ sim.last_gen.new \in 0..18

\* the call after 4 full levels in a row has been made
C18_Witness ==
    /\ sim.last_gen.run_before = 4
    /\ sim.last_gen.kind = "empty"
    /\ sim.run[sim.last_gen.name] = 0

\* the step is a turn of the loop that generated and posted a level
Posted == Len(sim'.posts) = Len(sim.posts) + 1

PostedName == sim'.posts[Len(sim'.posts)].name

\* the step is the top of an iteration
AtLoopTop == sim.pc = "top" /\ sim'.pc # "top"

\* C13: while the held pause flag is true no level is generated or posted and no
\* bin's generator state or next-due time changes; an iteration that starts with
\* the flag true calls fetch_config; a fetch_config that gets an answer takes the
\* service's flag, and when that is false the same iteration goes on to the bins.
C13_PausedLoopOnlyPolls ==
    [][/\ (sim.paused \/ sim'.paused) =>
              /\ ~Posted
              /\ sim'.last_levels = sim.last_levels
              /\ sim'.full_counts = sim.full_counts
              /\ sim'.next_update = sim.next_update
              /\ sim'.gen_now = sim.gen_now
       /\ (AtLoopTop /\ sim.paused) => sim'.polled \in {"ok", "failed"}
       /\ (AtLoopTop /\ sim'.polled = "ok") =>
              /\ sim'.paused = ConfigPaused(settings)
              /\ ~sim'.paused => (sim'.pc = "bins" /\ sim'.idx = 1)]_vars

\* yellow's first level was generated on a later tick than the first one: the
\* loop was paused, polled again, saw the flag cleared and went on
C13_Witness ==
    /\ sim.last_gen.name = "yellow"
    /\ sim.last_gen.kind = "seed"
    /\ sim.gen_now["yellow"] = sim.now
    /\ sim.now >= EpochStart + CONFIG_POLL_INTERVAL
    /\ sim.polled = "ok"
    /\ ~sim.paused

\* C14: a post that fails still sets the bin's next-due time to now + interval and
\* leaves the generated level as its previous level; the loop goes on with the
\* next bin, so that at the end of a tick no bin is still due; a level is posted
\* only in the turn that generated it, once.
C14_FailedPostStillReschedules ==
    [][/\ (Posted /\ ~sim'.posts[Len(sim'.posts)].ok) =>
              /\ sim'.next_update[PostedName] = sim.now + Interval[PostedName]
              /\ sim'.last_levels[PostedName] = sim'.posts[Len(sim'.posts)].level
              /\ sim'.pc = "bins"
              /\ sim'.idx = sim.idx + 1
       /\ Posted =>
              /\ sim'.last_gen.name = PostedName
              /\ sim'.last_gen.new = sim'.posts[Len(sim'.posts)].level
              /\ \A i \in 1..Len(sim.posts) : sim.posts[i].name # PostedName
       /\ (sim'.pc = "bins" /\ sim'.idx > Len(SimBins)) =>
              \A n \in SimNames : sim'.next_update[n] > sim'.now]_vars

\* a tick on which yellow's post failed and green and blue were posted after it
C14_Witness ==
    /\ sim.pc = "bins"
    /\ sim.idx > Len(SimBins)
    /\ Len(sim.posts) = Len(SimBins)
    /\ ~sim.posts[1].ok
    /\ sim.posts[2].ok
    /\ sim.next_update["yellow"] = sim.now + Interval["yellow"]
    /\ sim.last_levels["yellow"] = sim.posts[1].level

\* C17: a level is generated and posted only for a bin whose next-due time is not
\* after the tick's now, and its next-due time then becomes now + its interval;
\* two generations of a bin are at least its interval apart in tick times; a bin is
\* taken at most once per tick; no other step and no other bin's turn changes a
\* bin's next-due time.
C17_PerBinSchedule ==
    [][/\ Posted =>
              /\ sim.now >= sim.next_update[PostedName]
              /\ sim'.next_update[PostedName] = sim.now + Interval[PostedName]
              /\ sim'.gen_now[PostedName] = sim.now
              /\ sim.gen_now[PostedName] >= 0 =>
                     sim.now - sim.gen_now[PostedName] >= Interval[PostedName]
              /\ \A i \in 1..Len(sim.posts) : sim.posts[i].name # PostedName
              /\ \A m \in SimNames \ {PostedName} :
                     sim'.next_update[m] = sim.next_update[m]
       /\ ~Posted =>
              /\ sim'.next_update = sim.next_update
              /\ sim'.gen_now = sim.gen_now
              /\ sim'.last_levels = sim.last_levels]_vars

\* yellow's second level was generated on a tick on which green was not due
C17_Witness ==
    /\ sim.last_gen.name = "yellow"
    /\ sim.last_gen.kind # "seed"
    /\ sim.gen_now["yellow"] = sim.now
    /\ sim.next_update["yellow"] = sim.now + Interval["yellow"]
    /\ sim.gen_now["green"] >= 0
    /\ sim.next_update["green"] > sim.now
    /\ sim.idx > 2

\* C15: two automatic alerts sent for a bin are at least ALERT_COOLDOWN_SECONDS
\* apart: an update_level call that sends one has read a clock value at least a
\* cooldown after the one of the alert sent before it.
C15_AutoAlertsCooldownApart ==
    [][\A r \in Slots :
          (/\ req[r].pc = "send"
           /\ req'[r].pc = "done"
           /\ req'[r].resp.alert_sent
           /\ last_auto_ok[req[r].bin] >= 0)
          => req[r].now_ts - last_auto_ok[req[r].bin] >= ALERT_COOLDOWN_SECONDS]_vars

\* GET /levels: {b.name: b.latest_level for b in bins}
get_levels(tbl) == [b \in DOMAIN tbl |-> tbl[b].latest_level]

ReadingsOf(b) == {i \in 1..Len(readings) : readings[i].bin_name = b}

LastReadingOf(b) == CHOOSE i \in ReadingsOf(b) : \A j \in ReadingsOf(b) : j <= i

\* C19: the level GET /levels gives for a bin is the level of the bin's most
\* recently appended Reading, and the column default 0 while it has none:
\* trigger_alert and the notifier's results leave it alone.
C19_LatestLevelIsLastReading ==
    \A b \in DOMAIN bins :
        get_levels(bins)[b] = IF ReadingsOf(b) = {} THEN 0
                              ELSE readings[LastReadingOf(b)].level

\* a bin got a second Reading with another level and a manual alert was sent since
C19_Witness ==
    \E b \in DOMAIN bins :
        /\ Cardinality(ReadingsOf(b)) >= 2
        /\ \E i \in ReadingsOf(b) : readings[i].level # readings[LastReadingOf(b)].level
        /\ get_levels(bins)[b] = readings[LastReadingOf(b)].level
        /\ last_manual_ok[b] >= 0

\* C20: an update_level call with level >= 80 that reads the clock less than
\* ALERT_COOLDOWN_SECONDS after a manual alert of the bin was sent makes no notifier
\* call and answers alert_sent = false; a failed manual alert leaves every
\* last_alert_ts as it was, so the next automatic alert is not delayed.
C20_ManualAlertStartsCooldown ==
    [][/\ \A r \in Slots :
            (/\ req[r].pc = "check"
             /\ req'[r].pc # "check"
             /\ last_manual_ok[req[r].bin] >= 0
             /\ clock - last_manual_ok[req[r].bin] < ALERT_COOLDOWN_SECONDS)
            => /\ req'[r].pc = "done"
               /\ req'[r].calls = 0
               /\ ~req'[r].resp.alert_sent
               /\ sms_calls' = sms_calls
       /\ \A r \in Slots :
            (req[r].pc = "tsend" /\ req'[r].pc = "done" /\ ~req'[r].sent)
            => \A b \in DOMAIN bins :
                   bins'[b].last_alert_ts = bins[b].last_alert_ts]_vars

\* a qualifying update half a cooldown after a sent manual alert, answered
\* without a notifier call
C20_Witness ==
    \E r \in DoneUpdates :
        /\ req[r].level >= 80
        /\ last_manual_ok[req[r].bin] >= 0
        /\ req[r].now_ts - last_manual_ok[req[r].bin] > 0
        /\ req[r].now_ts - last_manual_ok[req[r].bin] < ALERT_COOLDOWN_SECONDS
        /\ req[r].calls = 0
        /\ last_auto_ok[req[r].bin] < 0

====
